---- MODULE Spec2Model ----
(***************************************************************************)
(* restreq: a fluent builder around net/http.  The model covers the JSON    *)
(* accumulator (Request.json) with the two operations that write it,        *)
(* SetJSONKeyValue (token parser) and AddJSONKeyValue (direct insertion),   *)
(* and the dispatch Request.do behind Post/Get/Put/Patch/Delete.            *)
(*                                                                          *)
(* Go strings are sequences of one-character strings, so that strings.Cut   *)
(* and the strconv parsers work on characters as the code does.             *)
(***************************************************************************)
EXTENDS Integers, Sequences, FiniteSets, TLC

\* ------------------------------------------------------------------------
\* Bounds of the model
\* ------------------------------------------------------------------------

\* A token is the concatenation of at most MaxPieces pieces of Pieces.
MaxPieces == 4

\* Builder calls in one behaviour of Spec.
MaxCalls == 3

\* Builder calls and dispatches in one behaviour of SpecDo.
MaxDoCalls == 2
MaxDispatch == 2

\* ------------------------------------------------------------------------
\* Values of map[string]any
\* ------------------------------------------------------------------------

\* One shape for every dynamic type, so that values of different types
\* compare (unequal) instead of failing to compare.
\*   string : txt is the text
\*   bool   : b
\*   int    : neg, txt = decimal digits without leading zeros (int64)
\*   float  : neg, txt = significant decimal digits, exp = power of ten,
\*            value = +-txt * 10^exp; txt = "inf" / "nan" for the specials
\*   nil    : the nil interface
StringVal(s) == [kind |-> "string", b |-> FALSE, neg |-> FALSE, txt |-> s, exp |-> 0]
BoolVal(x) == [kind |-> "bool", b |-> x, neg |-> FALSE, txt |-> <<>>, exp |-> 0]
IntVal(n, d) == [kind |-> "int", b |-> FALSE, neg |-> n, txt |-> d, exp |-> 0]
FloatVal(n, d, e) == [kind |-> "float", b |-> FALSE, neg |-> n, txt |-> d, exp |-> e]
NilVal == [kind |-> "nil", b |-> FALSE, neg |-> FALSE, txt |-> <<>>, exp |-> 0]

InfText == <<"i", "n", "f">>
NaNText == <<"n", "a", "n">>

\* make(map[string]any)
EmptyMap == [k \in {} |-> NilVal]

\* Faulty variants of MapAssign: the map is made anew at each write; a key
\* already present keeps its first value.
MapAssignFresh(m, key, v) == [k \in {key} |-> v]
MapAssignKeepFirst(m, key, v) ==
    [k \in DOMAIN m \cup {key} |-> IF k \in DOMAIN m THEN m[k] ELSE v]

\* r.json[key] = v
MapAssign(m, key, v) == [k \in DOMAIN m \cup {key} |-> IF k = key THEN v ELSE m[k]]

\* ------------------------------------------------------------------------
\* strings.Cut
\* ------------------------------------------------------------------------

\* Whether sep lies in s at position i
MatchAt(s, sep, i) ==
    i + Len(sep) - 1 <= Len(s) /\ \A j \in 1..Len(sep) : s[i + j - 1] = sep[j]

RECURSIVE ScanUp(_, _, _)
ScanUp(s, sep, i) ==
    IF i + Len(sep) - 1 > Len(s) THEN 0
    ELSE IF MatchAt(s, sep, i) THEN i
    ELSE ScanUp(s, sep, i + 1)

RECURSIVE ScanDown(_, _, _)
ScanDown(s, sep, i) ==
    IF i < 1 THEN 0
    ELSE IF MatchAt(s, sep, i) THEN i
    ELSE ScanDown(s, sep, i - 1)

\* Faulty variant of Index: the last position of sep in s (strings.LastIndex).
IndexLast(s, sep) == ScanDown(s, sep, Len(s) - Len(sep) + 1)

\* strings.Index: the first position (1-based) of sep in s, 0 when absent.
Index(s, sep) == ScanUp(s, sep, 1)

\* strings.Cut(s, sep): before, after, found
Cut(s, sep) ==
    LET i == Index(s, sep)
    IN IF i = 0
       THEN [before |-> s, after |-> <<>>, found |-> FALSE]
       ELSE [before |-> SubSeq(s, 1, i - 1),
             after |-> SubSeq(s, i + Len(sep), Len(s)),
             found |-> TRUE]

\* ------------------------------------------------------------------------
\* strconv parsers.  A parse result is [ok, val]; ok = FALSE is err != nil.
\* ------------------------------------------------------------------------

Chars(w) == {w[i] : i \in 1..Len(w)}

DigitChars == <<"0", "1", "2", "3", "4", "5", "6", "7", "8", "9">>
Digits == Chars(DigitChars)
DigitVal(c) == (CHOOSE i \in 1..10 : DigitChars[i] = c) - 1

UpperChars == <<"A", "F", "I", "N", "T", "Y", "E">>
LowerChars == <<"a", "f", "i", "n", "t", "y", "e">>
\* lower(c) of strconv, on the letters the special values are spelled with
LowerChar(c) ==
    IF c \in Chars(UpperChars)
    THEN LowerChars[CHOOSE i \in 1..Len(UpperChars) : UpperChars[i] = c]
    ELSE c
ToLower(s) == [i \in 1..Len(s) |-> LowerChar(s[i])]

NoValue == [ok |-> FALSE, val |-> NilVal]
Parsed(v) == [ok |-> TRUE, val |-> v]

\* strconv.ParseBool: the twelve accepted spellings
BoolTrueTexts ==
    { <<"1">>, <<"t">>, <<"T">>, <<"T", "R", "U", "E">>,
      <<"t", "r", "u", "e">>, <<"T", "r", "u", "e">> }
BoolFalseTexts ==
    { <<"0">>, <<"f">>, <<"F">>, <<"F", "A", "L", "S", "E">>,
      <<"f", "a", "l", "s", "e">>, <<"F", "a", "l", "s", "e">> }
ParseBool(s) ==
    IF s \in BoolTrueTexts THEN Parsed(BoolVal(TRUE))
    ELSE IF s \in BoolFalseTexts THEN Parsed(BoolVal(FALSE))
    ELSE NoValue

\* Decimal digits without their leading zeros ("0" for zero).
RECURSIVE StripLeadingZeros(_)
StripLeadingZeros(d) ==
    IF Len(d) > 1 /\ d[1] = "0" THEN StripLeadingZeros(Tail(d)) ELSE d

\* a < b for two digit strings of the same length
RECURSIVE LexLess(_, _)
LexLess(a, b) ==
    IF a = <<>> THEN FALSE
    ELSE IF DigitVal(a[1]) # DigitVal(b[1]) THEN DigitVal(a[1]) < DigitVal(b[1])
    ELSE LexLess(Tail(a), Tail(b))

\* a < b for two naturals written without leading zeros
DecLess(a, b) ==
    \/ Len(a) < Len(b)
    \/ Len(a) = Len(b) /\ LexLess(a, b)

\* 1 << 63, the cutoff of ParseInt(s, 10, 64)
Int64Cutoff ==
    <<"9", "2", "2", "3", "3", "7", "2", "0", "3", "6",
      "8", "5", "4", "7", "7", "5", "8", "0", "8">>

\* strconv.ParseInt(s, 10, 64): optional sign, then decimal digits only
\* (base 10 takes no underscore and no letter), within the int64 range.
ParseInt(s) ==
    IF s = <<>> THEN NoValue
    ELSE LET signed == s[1] \in {"+", "-"}
             neg == s[1] = "-"
             body == IF signed THEN Tail(s) ELSE s
         IN IF body = <<>> \/ (\E i \in 1..Len(body) : body[i] \notin Digits)
            THEN NoValue
            ELSE LET d == StripLeadingZeros(body)
                 IN IF neg
                    THEN IF DecLess(Int64Cutoff, d)
                         THEN NoValue
                         ELSE Parsed(IntVal(d # <<"0">>, d))
                    ELSE IF ~DecLess(d, Int64Cutoff)
                         THEN NoValue
                         ELSE Parsed(IntVal(FALSE, d))

\* The exponent digits as a number; readFloat stops accumulating at 10000.
RECURSIVE DecToNat(_, _)
DecToNat(d, acc) ==
    IF d = <<>> THEN acc
    ELSE DecToNat(Tail(d), IF acc < 10000 THEN acc * 10 + DigitVal(d[1]) ELSE acc)

RECURSIVE StripTrailingZeros(_)
StripTrailingZeros(d) ==
    IF Len(d) > 1 /\ d[Len(d)] = "0"
    THEN StripTrailingZeros(SubSeq(d, 1, Len(d) - 1))
    ELSE d

\* The digits of the largest finite float64 rounded up (1.7976931348623158e308):
\* a decimal at or above it is out of range.
MaxFloatDigits ==
    <<"1", "7", "9", "7", "6", "9", "3", "1", "3", "4", "8", "6", "2", "3", "1", "5", "8">>
PadZeros(d, n) == [i \in 1..n |-> IF i <= Len(d) THEN d[i] ELSE "0"]

\* +-digits * 10^e as a float value; out of range is ErrRange (err != nil).
\* Rounding to 53 bits is not modelled: the value keeps its decimal digits.
DecimalFloat(neg, digits, e) ==
    LET lead == StripLeadingZeros(digits)
        sig == StripTrailingZeros(lead)
        ex == e + (Len(lead) - Len(sig))
        adj == ex + Len(sig) - 1
        n == IF Len(sig) > Len(MaxFloatDigits) THEN Len(sig) ELSE Len(MaxFloatDigits)
    IN IF sig = <<"0">> THEN Parsed(FloatVal(neg, sig, 0))
       ELSE IF adj > 308
                 \/ (adj = 308 /\ ~LexLess(PadZeros(sig, n), PadZeros(MaxFloatDigits, n)))
            THEN NoValue
            ELSE Parsed(FloatVal(neg, sig, ex))

\* special() of strconv/atof.go: "inf" and "infinity" with an optional sign,
\* "nan" without one, in any letter case.
Special(s) ==
    LET signed == s # <<>> /\ s[1] \in {"+", "-"}
        body == ToLower(IF signed THEN Tail(s) ELSE s)
    IN IF body \in {InfText, <<"i", "n", "f", "i", "n", "i", "t", "y">>}
       THEN Parsed(FloatVal(signed /\ s[1] = "-", InfText, 0))
       ELSE IF ~signed /\ body = NaNText
            THEN Parsed(FloatVal(FALSE, NaNText, 0))
            ELSE NoValue

\* The longest prefix of s made of the characters of set
RECURSIVE SpanOf(_, _)
SpanOf(s, set) ==
    IF s # <<>> /\ s[1] \in set THEN <<s[1]>> \o SpanOf(Tail(s), set) ELSE <<>>

Drop(s, n) == SubSeq(s, n + 1, Len(s))

\* strconv.ParseFloat(s, 64) on decimal text: the special values, else
\* [sign] digits [. digits] [e|E [sign] digits] with at least one mantissa
\* digit, the whole of s consumed.  (The hexadecimal form needs "0x" and the
\* digit separator "_"; the texts of the model hold neither.)
ParseFloat(s) ==
    IF Special(s).ok THEN Special(s)
    ELSE LET signed == s # <<>> /\ s[1] \in {"+", "-"}
             neg == signed /\ s[1] = "-"
             s1 == IF signed THEN Tail(s) ELSE s
             ip == SpanOf(s1, Digits)
             s2 == Drop(s1, Len(ip))
             dot == s2 # <<>> /\ s2[1] = "."
             fp == IF dot THEN SpanOf(Tail(s2), Digits) ELSE <<>>
             s3 == IF dot THEN Drop(s2, 1 + Len(fp)) ELSE s2
             hasExp == s3 # <<>> /\ s3[1] \in {"e", "E"}
             s4 == IF hasExp THEN Tail(s3) ELSE s3
             esigned == hasExp /\ s4 # <<>> /\ s4[1] \in {"+", "-"}
             eneg == esigned /\ s4[1] = "-"
             s5 == IF esigned THEN Tail(s4) ELSE s4
             ed == IF hasExp THEN SpanOf(s5, Digits) ELSE <<>>
             rest == IF hasExp THEN Drop(s5, Len(ed)) ELSE s3
             e == IF eneg THEN 0 - DecToNat(ed, 0) ELSE DecToNat(ed, 0)
         IN IF ip \o fp = <<>> THEN NoValue
            ELSE IF hasExp /\ ed = <<>> THEN NoValue
            ELSE IF rest # <<>> THEN NoValue
            ELSE DecimalFloat(neg, ip \o fp, e - Len(fp))

\* ------------------------------------------------------------------------
\* The two operations that write Request.json
\* ------------------------------------------------------------------------

SepTyped == <<":", "=">>
SepPlain == <<"=">>

\* Faulty variants of SetJSONKeyValue: the float parse tried before the
\* integer parse; a typed token that stores nothing handed on to the plain
\* "=" path; the plain path without its check of the key.
SetJSONKeyValueFloatFirst(m, i) ==
    LET c == Cut(i, SepTyped)
        p == Cut(i, SepPlain)
    IN IF c.found /\ (c.before = <<>> \/ c.after = <<>>) THEN m
       ELSE IF c.found
            THEN IF ParseBool(c.after).ok
                 THEN MapAssign(m, c.before, ParseBool(c.after).val)
                 ELSE IF ParseFloat(c.after).ok
                      THEN MapAssign(m, c.before, ParseFloat(c.after).val)
                      ELSE IF ParseInt(c.after).ok
                           THEN MapAssign(m, c.before, ParseInt(c.after).val)
                           ELSE m
            ELSE IF p.found /\ p.before # <<>> /\ p.after # <<>>
                 THEN MapAssign(m, p.before, StringVal(p.after))
                 ELSE m

SetJSONKeyValueFallThrough(m, i) ==
    LET c == Cut(i, SepTyped)
        p == Cut(i, SepPlain)
        typed == c.found /\ c.before # <<>> /\ c.after # <<>>
    IN IF typed /\ ParseBool(c.after).ok
       THEN MapAssign(m, c.before, ParseBool(c.after).val)
       ELSE IF typed /\ ParseInt(c.after).ok
            THEN MapAssign(m, c.before, ParseInt(c.after).val)
            ELSE IF typed /\ ParseFloat(c.after).ok
                 THEN MapAssign(m, c.before, ParseFloat(c.after).val)
                 ELSE IF p.found /\ p.before # <<>> /\ p.after # <<>>
                      THEN MapAssign(m, p.before, StringVal(p.after))
                      ELSE m

SetJSONKeyValueAnyKey(m, i) ==
    LET c == Cut(i, SepTyped)
        p == Cut(i, SepPlain)
    IN IF c.found /\ (c.before = <<>> \/ c.after = <<>>) THEN m
       ELSE IF c.found
            THEN IF ParseBool(c.after).ok
                 THEN MapAssign(m, c.before, ParseBool(c.after).val)
                 ELSE IF ParseInt(c.after).ok
                      THEN MapAssign(m, c.before, ParseInt(c.after).val)
                      ELSE IF ParseFloat(c.after).ok
                           THEN MapAssign(m, c.before, ParseFloat(c.after).val)
                           ELSE m
            ELSE IF p.found /\ p.after # <<>>
                 THEN MapAssign(m, p.before, StringVal(p.after))
                 ELSE m

\* req.SetJSONKeyValue(i), as a function of the accumulator
SetJSONKeyValue(m, i) ==
    LET c == Cut(i, SepTyped)
        p == Cut(i, SepPlain)
    IN IF c.found /\ (c.before = <<>> \/ c.after = <<>>) THEN m
       ELSE IF c.found
            THEN IF ParseBool(c.after).ok
                 THEN MapAssign(m, c.before, ParseBool(c.after).val)
                 ELSE IF ParseInt(c.after).ok
                      THEN MapAssign(m, c.before, ParseInt(c.after).val)
                      ELSE IF ParseFloat(c.after).ok
                           THEN MapAssign(m, c.before, ParseFloat(c.after).val)
                           ELSE m
            ELSE IF p.found /\ p.before # <<>> /\ p.after # <<>>
                 THEN MapAssign(m, p.before, StringVal(p.after))
                 ELSE m

\* value == "" for value of type any: true for the string "" alone
IsEmptyString(v) == v.kind = "string" /\ v.txt = <<>>

\* Faulty variants of AddJSONKeyValue: the value is not looked at; every
\* zero value counts as empty.
AddJSONKeyValueAnyValue(m, key, value) ==
    IF key = <<>> THEN m ELSE MapAssign(m, key, value)
AddJSONKeyValueNoZero(m, key, value) ==
    IF key = <<>> \/ IsEmptyString(value) \/ value = BoolVal(FALSE)
          \/ value = IntVal(FALSE, <<"0">>) \/ value = NilVal
    THEN m
    ELSE MapAssign(m, key, value)

\* Request.AddJSONKeyValue(key, value), as a function of the accumulator
AddJSONKeyValue(m, key, value) ==
    IF key = <<>> \/ IsEmptyString(value) THEN m ELSE MapAssign(m, key, value)

\* ------------------------------------------------------------------------
\* Inputs
\* ------------------------------------------------------------------------

\* The pieces tokens are made of: a key letter, the two separators, boolean
\* spellings, digits, a fraction, a sign, an exponent mark, a special float
\* and a letter no parser takes.
Pieces ==
    { <<"k">>, SepTyped, SepPlain, <<"t", "r", "u", "e">>, <<"T", "r", "u", "e">>,
      <<"1">>, <<"7">>, <<".", "5">>, <<"-">>, <<"e">>, <<"N", "a", "N">>, <<"z">> }

RECURSIVE TokensOf(_)
TokensOf(n) ==
    IF n = 0 THEN {<<>>}
    ELSE LET shorter == TokensOf(n - 1)
         IN shorter \cup {t \o p : t \in shorter, p \in Pieces}

\* Every concatenation of at most MaxPieces pieces
Tokens == TokensOf(MaxPieces)

Nick == <<"n", "i", "c", "k">>
Bool == <<"b", "o", "o", "l">>
TestText == <<"t", "e", "s", "t">>

\* The tokens of call sequences: the scenarios of the token grammar, and
\* tokens that overwrite a key with a value of another type.
SeqTokens ==
    { <<"n", "i", "c", "k", "=", "t", "e", "s", "t">>,
      <<"n", "i", "c", "k", "=", "t", "e", "s", "t", "=", "t", "e", "s", "t">>,
      <<"n", "i", "c", "k", "=">>,
      <<"n", "i", "c", "k">>,
      <<"=", "n", "i", "c", "k", "=", "t", "e", "s", "t">>,
      <<"b", "o", "o", "l", ":", "=", "t", "r", "u", "e">>,
      <<"b", "o", "o", "l", ":", "=", "f", "a", "l", "s", "e">>,
      <<"b", "o", "o", "l", ":", "=", "x", "x", "x">>,
      <<"b", "o", "o", "l", ":", "=">>,
      <<":", "=", "t", "r", "u", "e">>,
      <<"f", "l", "o", "a", "t", "6", "4", ":", "=", "2", ".", "3", "4">>,
      <<"i", "n", "t", "3", "2", ":", "=", "7", "6">>,
      <<"b", "o", "o", "l", "=", "t", "r", "u", "e">>,
      <<"n", "i", "c", "k", ":", "=", "1">> }

\* The arguments of AddJSONKeyValue: those of Test_req_JSON, and values that
\* look empty without being the empty string.
AddKeys == { <<>>, Nick, Bool }
AddValues ==
    { StringVal(TestText), StringVal(<<>>), BoolVal(TRUE), BoolVal(FALSE),
      FloatVal(FALSE, <<"2", "3", "4">>, 0 - 2), IntVal(FALSE, <<"7", "6">>),
      IntVal(FALSE, <<"0">>), NilVal }

\* ------------------------------------------------------------------------
\* encoding/json: Encoder.Encode of a map[string]any
\* ------------------------------------------------------------------------

\* The characters of the model's texts in byte order
ByteOrder ==
    <<"-", ".", "0", "1", "2", "3", "4", "5", "6", "7", "8", "9", ":", "=",
      "A", "E", "F", "I", "L", "N", "R", "S", "T", "U", "Y",
      "a", "b", "c", "d", "e", "f", "i", "k", "l", "n", "o", "r", "s", "t",
      "u", "v", "x", "y", "z">>
ByteRank(c) == CHOOSE i \in 1..Len(ByteOrder) : ByteOrder[i] = c

\* a < b for two Go strings
RECURSIVE StringLess(_, _)
StringLess(a, b) ==
    IF b = <<>> THEN FALSE
    ELSE IF a = <<>> THEN TRUE
    ELSE IF a[1] # b[1] THEN ByteRank(a[1]) < ByteRank(b[1])
    ELSE StringLess(Tail(a), Tail(b))

\* The keys of a map in the encoder's order (sorted)
RECURSIVE SortedKeys(_)
SortedKeys(keys) ==
    IF keys = {} THEN <<>>
    ELSE LET least == CHOOSE k \in keys : \A j \in keys \ {k} : StringLess(k, j)
         IN <<least>> \o SortedKeys(keys \ {least})

\* A string literal: quoted, with the quote, the backslash and (the Encoder
\* escapes HTML) <, > and & escaped.  The texts of the model hold no control
\* character.
EscapeChar(c) ==
    IF c = "\"" THEN <<"\\", "\"">>
    ELSE IF c = "\\" THEN <<"\\", "\\">>
    ELSE IF c = "<" THEN <<"\\", "u", "0", "0", "3", "c">>
    ELSE IF c = ">" THEN <<"\\", "u", "0", "0", "3", "e">>
    ELSE IF c = "&" THEN <<"\\", "u", "0", "0", "2", "6">>
    ELSE <<c>>

RECURSIVE Escaped(_)
Escaped(t) == IF t = <<>> THEN <<>> ELSE EscapeChar(t[1]) \o Escaped(Tail(t))

EncodeString(t) == <<"\"">> \o Escaped(t) \o <<"\"">>

RECURSIVE NatToDec(_)
NatToDec(n) ==
    IF n < 10 THEN <<DigitChars[n + 1]>>
    ELSE NatToDec(n \div 10) \o <<DigitChars[(n % 10) + 1]>>

Zeros(n) == [i \in 1..n |-> "0"]

\* A float64: format 'f', or 'e' below 1e-6 and from 1e21 on, with the
\* digits that give the value back; the encoder writes e-9 for e-09.
EncodeFloat(v) ==
    LET sig == v.txt
        n == Len(sig)
        point == n + v.exp
        sign == IF v.neg THEN <<"-">> ELSE <<>>
        x == point - 1
    IN IF sig = <<"0">> THEN sign \o <<"0">>
       ELSE IF point <= 0 - 6 \/ point >= 22
            THEN sign \o <<sig[1]>>
                 \o (IF n > 1 THEN <<".">> \o Tail(sig) ELSE <<>>)
                 \o (IF x < 0 THEN <<"e", "-">> \o NatToDec(0 - x)
                     ELSE <<"e", "+">> \o NatToDec(x))
            ELSE IF point <= 0 THEN sign \o <<"0", ".">> \o Zeros(0 - point) \o sig
            ELSE IF point >= n THEN sign \o sig \o Zeros(point - n)
            ELSE sign \o SubSeq(sig, 1, point) \o <<".">> \o SubSeq(sig, point + 1, n)

\* The encoder takes the value: NaN and the infinities are unsupported values.
Encodable(v) == ~(v.kind = "float" /\ v.txt \in {InfText, NaNText})

EncodeValue(v) ==
    IF v.kind = "string" THEN EncodeString(v.txt)
    ELSE IF v.kind = "bool"
         THEN (IF v.b THEN <<"t", "r", "u", "e">> ELSE <<"f", "a", "l", "s", "e">>)
    ELSE IF v.kind = "int" THEN (IF v.neg THEN <<"-">> ELSE <<>>) \o v.txt
    ELSE IF v.kind = "float" THEN EncodeFloat(v)
    ELSE <<"n", "u", "l", "l">>

RECURSIVE EncodeEntries(_, _)
EncodeEntries(m, keys) ==
    IF keys = <<>> THEN <<>>
    ELSE EncodeString(keys[1]) \o <<":">> \o EncodeValue(m[keys[1]])
         \o (IF Len(keys) > 1 THEN <<",">> ELSE <<>>)
         \o EncodeEntries(m, Tail(keys))

\* json.NewEncoder(w).Encode(m) succeeds
EncodeOK(m) == \A k \in DOMAIN m : Encodable(m[k])

\* What json.NewEncoder(w).Encode(m) writes: the object and a line feed, or
\* nothing when it fails.
Encode(m) ==
    IF EncodeOK(m)
    THEN <<"{">> \o EncodeEntries(m, SortedKeys(DOMAIN m)) \o <<"}", "\n">>
    ELSE <<>>

\* ------------------------------------------------------------------------
\* State
\* ------------------------------------------------------------------------

VARIABLES
    json,          \* Request.json
    jsonPayload,   \* Request.jsonPayload, the bytes as characters
    bodyReader,    \* Request.bodyReader
    headers,       \* Request.headers
    cookies,       \* Request.cookies, by cookie name
    username,      \* Request.username
    password,      \* Request.password
    debugFlags,    \* Request.debugFlags
    logger,        \* Request.logger is not nil
    urlValid,      \* whether Request.url is one http.NewRequest accepts
    before,        \* Request.json as the last call found it
    lastCall,      \* the last call and its arguments
    lastAccepted,  \* per key, the entry of the last call that stored one
    calls,         \* builder calls made
    dispatches,    \* dispatches made
    clientResp,    \* the last dispatch: the client's Do returned a response
    respBody,      \* the last dispatch: http.Response.Body, none / open / closed
    ret,           \* the last dispatch: what do returned, none / resp / err
    sent,          \* the last dispatch: the http.Request handed to the client's Do
    logged,        \* the last dispatch: what r.logger printed
    sentBefore     \* the body the dispatch just before the last handed to Do

vars ==
    << json, jsonPayload, bodyReader, headers, cookies, username, password,
       debugFlags, logger, urlValid, before, lastCall, lastAccepted,
       calls, dispatches, clientResp, respBody, ret, sent, logged, sentBefore >>

requestVars == << headers, cookies, username, password, debugFlags, logger >>
builderVars == << jsonPayload, bodyReader, urlValid, requestVars >>
doVars == << dispatches, clientResp, respBody, ret, sent, logged, sentBefore >>

\* make(map[string]string), make(map[string]*http.Cookie)
NoHeaders == [k \in {} |-> ""]
NoCookies == [k \in {} |-> ""]

\* No request reached the client's Do.
NoRequest ==
    [built |-> FALSE, method |-> "", body |-> <<>>, header |-> NoHeaders,
     cookies |-> NoCookies, auth |-> <<>>]

NoBody == [built |-> FALSE, body |-> <<>>]
NoLog == [body |-> {}, headers |-> {}, cookies |-> {}]

Call(op, tok, key, val) == [op |-> op, tok |-> tok, key |-> key, val |-> val]

Methods == {"POST", "GET", "DELETE", "PATCH", "PUT"}

\* New(u)
New(valid) ==
    /\ json = EmptyMap
    /\ jsonPayload = <<>>
    /\ bodyReader = FALSE
    /\ headers = NoHeaders
    /\ cookies = NoCookies
    /\ username = ""
    /\ password = ""
    /\ debugFlags = 0
    /\ logger = FALSE
    /\ urlValid = valid
    /\ before = EmptyMap
    /\ lastCall = Call("New", <<>>, <<>>, NilVal)
    /\ lastAccepted = EmptyMap
    /\ calls = 0
    /\ dispatches = 0
    /\ clientResp = FALSE
    /\ respBody = "none"
    /\ ret = "none"
    /\ sent = NoRequest
    /\ logged = NoLog
    /\ sentBefore = NoBody

\* The entry a call stores, as the accumulator it makes of an empty one.
Accept(entry, acc) ==
    [k \in DOMAIN entry \cup DOMAIN acc |-> IF k \in DOMAIN entry THEN entry[k] ELSE acc[k]]

\* r.SetJSONKeyValue(i)
SetJSONKeyValueCall(i) ==
    /\ json' = SetJSONKeyValue(json, i)
    /\ before' = json
    /\ lastCall' = Call("SetJSONKeyValue", i, <<>>, NilVal)
    /\ lastAccepted' = Accept(SetJSONKeyValue(EmptyMap, i), lastAccepted)
    /\ calls' = calls + 1
    /\ UNCHANGED << builderVars, doVars >>

\* r.AddJSONKeyValue(key, value)
AddJSONKeyValueCall(key, value) ==
    /\ json' = AddJSONKeyValue(json, key, value)
    /\ before' = json
    /\ lastCall' = Call("AddJSONKeyValue", <<>>, key, value)
    /\ lastAccepted' = Accept(AddJSONKeyValue(EmptyMap, key, value), lastAccepted)
    /\ calls' = calls + 1
    /\ UNCHANGED << builderVars, doVars >>

\* ------------------------------------------------------------------------
\* Spec: sequences of calls on the accumulator of a request made by New
\* ------------------------------------------------------------------------

Init == New(TRUE)

SetJSONKeyValueStep ==
    /\ calls < MaxCalls
    /\ \E i \in SeqTokens : SetJSONKeyValueCall(i)

AddJSONKeyValueStep ==
    /\ calls < MaxCalls
    /\ \E key \in AddKeys, value \in AddValues : AddJSONKeyValueCall(key, value)

Next == SetJSONKeyValueStep \/ AddJSONKeyValueStep

Spec == Init /\ [][Next]_vars

\* ------------------------------------------------------------------------
\* SpecParse: one SetJSONKeyValue call, on every token of Tokens
\* ------------------------------------------------------------------------

KeyK == <<"k">>

\* The accumulators the call finds: the empty one of New, and one holding an
\* entry under a key tokens can spell, put there by AddJSONKeyValue.
StartCalls == { <<>>, <<Call("AddJSONKeyValue", <<>>, KeyK, StringVal(TestText))>> }

InitParse ==
    \E cs \in StartCalls :
        /\ json = (IF cs = <<>> THEN EmptyMap
                   ELSE AddJSONKeyValue(EmptyMap, cs[1].key, cs[1].val))
        /\ jsonPayload = <<>>
        /\ bodyReader = FALSE
        /\ headers = NoHeaders
        /\ cookies = NoCookies
        /\ username = ""
        /\ password = ""
        /\ debugFlags = 0
        /\ logger = FALSE
        /\ urlValid = TRUE
        /\ before = EmptyMap
        /\ lastCall = (IF cs = <<>> THEN Call("New", <<>>, <<>>, NilVal) ELSE cs[1])
        /\ lastAccepted = json
        /\ calls = Len(cs)
        /\ dispatches = 0
        /\ clientResp = FALSE
        /\ respBody = "none"
        /\ ret = "none"
        /\ sent = NoRequest
        /\ logged = NoLog
        /\ sentBefore = NoBody

ParseStep ==
    /\ lastCall.op # "SetJSONKeyValue"
    /\ \E i \in Tokens : SetJSONKeyValueCall(i)

NextParse == ParseStep

SpecParse == InitParse /\ [][NextParse]_vars

\* ------------------------------------------------------------------------
\* SpecDo: a request is configured and dispatched
\* ------------------------------------------------------------------------

\* r.WithBodyReader()
WithBodyReader ==
    /\ bodyReader' = TRUE
    /\ lastCall' = Call("WithBodyReader", <<>>, <<>>, NilVal)
    /\ calls' = calls + 1
    /\ UNCHANGED << json, jsonPayload, urlValid, requestVars, before, lastAccepted, doVars >>

\* What SetJSONPayload is given: a map the encoder takes, and one it refuses.
PayloadValues ==
    { MapAssign(EmptyMap, <<"k", "e", "y">>, StringVal(<<"v", "a", "l", "u", "e">>)),
      MapAssign(EmptyMap, <<"k", "e", "y">>, FloatVal(FALSE, NaNText, 0)) }

\* r.SetJSONPayload(p)
SetJSONPayload(p) ==
    /\ jsonPayload' = Encode(p)
    /\ lastCall' = Call("SetJSONPayload", <<>>, <<>>, NilVal)
    /\ calls' = calls + 1
    /\ UNCHANGED << json, bodyReader, urlValid, requestVars, before, lastAccepted, doVars >>

\* DebugFlag: 1 << iota
ReqBody == 1
ReqHeaders == 2
ReqCookies == 4
RespBody == 8
RespHeaders == 16
RespCookies == 32

\* r.SetBasicAuth(username, password)
SetBasicAuth(u, p) ==
    /\ username' = u
    /\ password' = p
    /\ lastCall' = Call("SetBasicAuth", <<>>, <<>>, NilVal)
    /\ calls' = calls + 1
    /\ UNCHANGED << json, jsonPayload, bodyReader, urlValid, headers, cookies,
                    debugFlags, logger, before, lastAccepted, doVars >>

\* m[k] = v on a map[string]string, and on the cookies by their names
StringMapAssign(m, k, v) ==
    [n \in DOMAIN m \cup {k} |-> IF n = k THEN v ELSE m[n]]

\* r.AddCookie(c): r.cookies[c.Name] = c
AddCookie(c) ==
    /\ cookies' = StringMapAssign(cookies, c.Name, c.Value)
    /\ lastCall' = Call("AddCookie", <<>>, <<>>, NilVal)
    /\ calls' = calls + 1
    /\ UNCHANGED << json, jsonPayload, bodyReader, urlValid, headers, username,
                    password, debugFlags, logger, before, lastAccepted, doVars >>

\* r.AddHeader(k, v): r.headers[k] = v
AddHeader(k, v) ==
    /\ headers' = StringMapAssign(headers, k, v)
    /\ lastCall' = Call("AddHeader", <<>>, <<>>, NilVal)
    /\ calls' = calls + 1
    /\ UNCHANGED << json, jsonPayload, bodyReader, urlValid, cookies, username,
                    password, debugFlags, logger, before, lastAccepted, doVars >>

\* r.Debug(logger, flags); the logger is nil (FALSE) or not
Debug(l, flags) ==
    /\ debugFlags' = flags
    /\ logger' = l
    /\ lastCall' = Call("Debug", <<>>, <<>>, NilVal)
    /\ calls' = calls + 1
    /\ UNCHANGED << json, jsonPayload, bodyReader, urlValid, headers, cookies,
                    username, password, before, lastAccepted, doVars >>

\* a & b on non-negative integers
RECURSIVE And(_, _)
And(a, b) ==
    IF a = 0 \/ b = 0 THEN 0
    ELSE (a % 2) * (b % 2) + 2 * And(a \div 2, b \div 2)

\* r.debug(f, s) reaches r.logger.Printf
debug(f) == logger /\ And(debugFlags, 2 ^ (f - 1)) # 0

\* strings.TrimRight(s, "\n")
RECURSIVE TrimRight(_)
TrimRight(s) ==
    IF s # <<>> /\ s[Len(s)] = "\n" THEN TrimRight(SubSeq(s, 1, Len(s) - 1)) ELSE s

\* A faulty payload: the accumulator, when it has an entry, goes before the
\* stored bytes
PayloadKeepsAccumulator(p, m) == IF m # EmptyMap THEN Encode(m) ELSE p

\* The payload do writes: the stored bytes when there are some, else the
\* encoding of r.json
Payload(p, m) == IF Len(p) > 0 THEN p ELSE Encode(m)

\* The payload is there: the stored bytes, or Encode(r.json) returned no error
PayloadBuilt == Len(jsonPayload) > 0 \/ EncodeOK(json)

\* Up to c.Do(req): the payload is built and http.NewRequest made the request.
RequestBuilt == PayloadBuilt /\ urlValid

\* The loop over r.cookies calls r.AddCookie(v) for each: the cookies after it
RECURSIVE CookiesReAdded(_, _)
CookiesReAdded(cs, names) ==
    IF names = {} THEN cs
    ELSE LET n == CHOOSE x \in names : TRUE
         IN CookiesReAdded(StringMapAssign(cs, n, cs[n]), names \ {n})

\* The *http.Request do hands to c.Do: req.Header.Set for every header;
\* req.SetBasicAuth and req.AddCookie are never called on it.
RequestOf(method) ==
    [built |-> TRUE, method |-> method, body |-> Payload(jsonPayload, json),
     header |-> headers, cookies |-> NoCookies, auth |-> <<>>]

\* What the r.debug calls of do print, up to http.NewRequest and after it
LogBody == IF debug(ReqBody) THEN {TrimRight(Payload(jsonPayload, json))} ELSE {}
LogHeaders == IF debug(ReqHeaders) THEN DOMAIN headers ELSE {}
LogCookies == IF debug(ReqCookies) THEN DOMAIN cookies ELSE {}

\* What every way through do shares; r.SetBasicAuth(r.username, r.password)
\* and r.AddCookie(v) write the request's own fields back.
Dispatched(method) ==
    /\ dispatches < MaxDispatch
    /\ lastCall' = Call(method, <<>>, <<>>, NilVal)
    /\ dispatches' = dispatches + 1
    /\ sentBefore' = IF lastCall.op \in Methods
                   THEN [built |-> sent.built, body |-> sent.body]
                   ELSE NoBody
    /\ UNCHANGED << json, jsonPayload, bodyReader, urlValid, headers, debugFlags,
                    logger, before, lastAccepted, calls >>

\* Encode or http.NewRequest failed: return nil, err
doNoRequest(method) ==
    /\ Dispatched(method)
    /\ ~RequestBuilt
    /\ UNCHANGED << username, password, cookies >>
    /\ sent' = NoRequest
    /\ logged' = IF PayloadBuilt
                 THEN [body |-> LogBody, headers |-> {}, cookies |-> {}]
                 ELSE NoLog
    /\ clientResp' = FALSE
    /\ respBody' = "none"
    /\ ret' = "err"

\* do from http.NewRequest to c.Do(req)
doRequest(method) ==
    /\ Dispatched(method)
    /\ RequestBuilt
    /\ username' = username
    /\ password' = password
    /\ cookies' = CookiesReAdded(cookies, DOMAIN cookies)
    /\ sent' = RequestOf(method)
    /\ logged' = [body |-> LogBody, headers |-> LogHeaders, cookies |-> LogCookies]

\* c.Do(req) failed: return nil, err
doClientError(method) ==
    /\ doRequest(method)
    /\ clientResp' = FALSE
    /\ respBody' = "none"
    /\ ret' = "err"

\* c.Do(req) answered, r.bodyReader: the body is left to the caller
doBodyReader(method) ==
    /\ doRequest(method)
    /\ bodyReader
    /\ clientResp' = TRUE
    /\ respBody' = "open"
    /\ ret' = "resp"

\* c.Do(req) answered, io.Copy failed: return nil, err
doCopyError(method) ==
    /\ doRequest(method)
    /\ ~bodyReader
    /\ clientResp' = TRUE
    /\ respBody' = "open"
    /\ ret' = "err"

\* c.Do(req) answered, io.Copy done, resp.Body.Close()
doCopied(method) ==
    /\ doRequest(method)
    /\ ~bodyReader
    /\ clientResp' = TRUE
    /\ respBody' = "closed"
    /\ ret' = "resp"

\* Request.do(method): one disjunct for each way through it
do(method) ==
    \/ doNoRequest(method)
    \/ doClientError(method)
    \/ doBodyReader(method)
    \/ doCopyError(method)
    \/ doCopied(method)

Post == do("POST")
Get == do("GET")
Delete == do("DELETE")
Patch == do("PATCH")
Put == do("PUT")

\* New(u), with a URL http.NewRequest accepts or one it rejects
InitDo == \E valid \in BOOLEAN : New(valid)

DoValues == { StringVal(TestText), FloatVal(FALSE, NaNText, 0) }

WithBodyReaderStep == calls < MaxDoCalls /\ WithBodyReader

SetJSONPayloadStep ==
    /\ calls < MaxDoCalls
    /\ \E p \in PayloadValues : SetJSONPayload(p)

AddJSONKeyValueDoStep ==
    /\ calls < MaxDoCalls
    /\ \E value \in DoValues : AddJSONKeyValueCall(Nick, value)

\* Credentials: both given, and the password left empty
Credentials == { <<"user", "pass">>, <<"user", "">> }

SetBasicAuthStep ==
    /\ calls < MaxDoCalls
    /\ \E c \in Credentials : SetBasicAuth(c[1], c[2])

\* Cookies: a name given twice, and another name
Cookies ==
    { [Name |-> "sid", Value |-> "a"], [Name |-> "sid", Value |-> "b"],
      [Name |-> "lang", Value |-> "en"] }

AddCookieStep ==
    /\ calls < MaxDoCalls
    /\ \E c \in Cookies : AddCookie(c)

AddHeaderStep ==
    /\ calls < MaxDoCalls
    /\ AddHeader("Accept", "application/json")

NextDo ==
    \/ WithBodyReaderStep
    \/ SetJSONPayloadStep
    \/ AddJSONKeyValueDoStep
    \/ SetBasicAuthStep
    \/ AddCookieStep
    \/ AddHeaderStep
    \/ Post
    \/ Get
    \/ Delete
    \/ Patch
    \/ Put

SpecDo == InitDo /\ [][NextDo]_vars

\* ------------------------------------------------------------------------
\* SpecDebug: a request is given a logger and flags, and dispatched
\* ------------------------------------------------------------------------

\* Every combination of the six DebugFlag bits
FlagSets == 0..(ReqBody + ReqHeaders + ReqCookies + RespBody + RespHeaders + RespCookies)

DebugStep ==
    /\ calls < MaxDoCalls
    /\ \E l \in BOOLEAN, flags \in FlagSets : Debug(l, flags)

NextDebug ==
    \/ DebugStep
    \/ AddHeaderStep
    \/ AddCookieStep
    \/ WithBodyReaderStep
    \/ Post
    \/ Get
    \/ Delete
    \/ Patch
    \/ Put

SpecDebug == InitDo /\ [][NextDebug]_vars

\* ------------------------------------------------------------------------
\* Properties
\* ------------------------------------------------------------------------

IsSet == lastCall.op = "SetJSONKeyValue"
IsAdd == lastCall.op = "AddJSONKeyValue"

\* The last token, split at its first ":=" and at its first "="
Typed == Cut(lastCall.tok, SepTyped)
Plain == Cut(lastCall.tok, SepPlain)

StartsWith(s, prefix) == Len(s) >= Len(prefix) /\ SubSeq(s, 1, Len(prefix)) = prefix

\* The last call wrote the accumulator, and left an entry of this kind at key.
StoredKind(key, kind) ==
    json # before /\ key \in DOMAIN json /\ json[key].kind = kind

\* The keys whose entry the last call made or changed
Written == {k \in DOMAIN json : k \notin DOMAIN before \/ json[k] # before[k]}

\* The accumulator is the one before the last call with key set to v.
SetsOnly(key, v) ==
    /\ DOMAIN json = DOMAIN before \cup {key}
    /\ json[key] = v
    /\ \A k \in DOMAIN before \ {key} : json[k] = before[k]

\* C1: after any sequence of SetJSONKeyValue and AddJSONKeyValue calls on a
\* request made by New, the accumulator holds no entry whose key is the empty
\* string and no entry whose value is the empty string.
C1_NoEmptyKeyNoEmptyValue ==
    \A k \in DOMAIN json : k # <<>> /\ json[k] # StringVal(<<>>)

\* An empty value and an empty key were offered to an accumulator that
\* holds entries.
C1_Witness ==
    /\ calls = MaxCalls
    /\ json # EmptyMap
    /\ \/ IsAdd /\ lastCall.key = Nick /\ lastCall.val = StringVal(<<>>)
       \/ IsSet /\ lastCall.tok = <<"=", "n", "i", "c", "k", "=", "t", "e", "s", "t">>

\* C2: for a token split at its first ":=" with a key and a value that are
\* not empty, SetJSONKeyValue stores a boolean entry exactly when the value
\* is "true" or "false".
C2_BoolOnlyTrueFalse ==
    IsSet =>
        LET c == Typed
        IN (c.found /\ c.before # <<>> /\ c.after # <<>>)
               => (StoredKind(c.before, "bool") <=> c.after \in {<<"t", "r", "u", "e">>, <<"f", "a", "l", "s", "e">>})

\* C3: the typed parses are tried in the order boolean, integer, float and
\* the first success wins: a value that parses as a boolean is stored as one,
\* else one that parses as an int64 is stored as an integer; a value that
\* parses as an int64 is never stored as a float, and a float is stored only
\* when the boolean parse and the integer parse both fail.
C3_BoolThenIntThenFloat ==
    IsSet =>
        LET c == Typed
            isBool == ParseBool(c.after).ok
            isInt == ParseInt(c.after).ok
        IN (c.found /\ c.before # <<>> /\ c.after # <<>>)
               => /\ isBool => StoredKind(c.before, "bool")
                  /\ (~isBool /\ isInt) => StoredKind(c.before, "int")
                  /\ isInt => ~StoredKind(c.before, "float")
                  /\ StoredKind(c.before, "float") => ~isBool /\ ~isInt

\* A value both the integer parse and the float parse take is stored as an
\* integer.
C3_Witness ==
    /\ IsSet
    /\ Typed.found
    /\ Typed.after = <<"7">>
    /\ ParseFloat(Typed.after).ok
    /\ StoredKind(Typed.before, "int")

\* C4, as stated: a token that starts with "=" or with ":=" leaves the
\* accumulator unchanged, whatever follows the separator.
C4_LeadingSeparatorDropped ==
    (IsSet /\ (StartsWith(lastCall.tok, SepPlain) \/ StartsWith(lastCall.tok, SepTyped)))
        => json = before

\* C4, amended: a token that starts with ":=", or that starts with "=" and
\* holds no ":=", leaves the accumulator unchanged, whatever follows.
C4_LeadingSeparatorAmended ==
    (IsSet /\ (\/ StartsWith(lastCall.tok, SepTyped)
               \/ StartsWith(lastCall.tok, SepPlain) /\ ~Typed.found))
        => json = before

\* A token that starts with "=", with a key, a further "=" and a value
\* behind it, was dropped.
C4_Witness ==
    /\ IsSet
    /\ lastCall.tok = <<"=", "k", "=", "z">>
    /\ json = before

\* C5: a token that holds ":=" never makes a string entry, and when the text
\* before or after its first ":=" is empty, or the text after it parses as
\* none of boolean, integer and float, the accumulator is unchanged, also
\* when the token holds "=" with text on both sides.
C5_TypedNeverString ==
    IsSet =>
        LET c == Typed
        IN c.found
               => /\ \A k \in Written : json[k].kind # "string"
                  /\ (\/ c.before = <<>>
                      \/ c.after = <<>>
                      \/ /\ ~ParseBool(c.after).ok
                         /\ ~ParseInt(c.after).ok
                         /\ ~ParseFloat(c.after).ok)
                         => json = before

\* A typed token whose value holds "=" and parses as nothing was dropped,
\* though "=" splits it into a key and a value.
C5_Witness ==
    /\ IsSet
    /\ Typed.found
    /\ Typed.before # <<>>
    /\ Index(Typed.after, SepPlain) > 0
    /\ Plain.before # <<>>
    /\ Plain.after # <<>>
    /\ json = before

\* The places of "=" in a text
EqualsAt(t) == {n \in 1..Len(t) : t[n] = "="}

\* C6: a token that holds no ":=" stores an entry iff it holds "=" with text
\* before the first "=" and text after it; the key is the text before the
\* first "=", the value the whole text after it, a string, verbatim.  A token
\* without a separator stores nothing.
C6_PlainFirstEquals ==
    (IsSet /\ ~Typed.found) =>
        LET t == lastCall.tok
            eqs == EqualsAt(t)
            first == {n \in eqs : \A j \in eqs : n <= j}
        IN IF \E n \in first : 1 < n /\ n < Len(t)
           THEN \A n \in first :
                    SetsOnly(SubSeq(t, 1, n - 1), StringVal(SubSeq(t, n + 1, Len(t))))
           ELSE json = before

\* A plain token with a second "=" stored the text behind its first "=",
\* the second "=" in it, and a numeral stayed a string.
C6_Witness ==
    /\ IsSet
    /\ lastCall.tok = <<"k", "=", "=", "7">>
    /\ KeyK \in DOMAIN json
    /\ json[KeyK] = StringVal(<<"=", "7">>)

\* C7: one SetJSONKeyValue call leaves the accumulator unchanged or sets one
\* key; every other key keeps its value and no key is removed.
C7_OneKeyFrame ==
    IsSet
        => \/ json = before
           \/ \E key \in DOMAIN json :
                  /\ DOMAIN json = DOMAIN before \cup {key}
                  /\ \A k \in DOMAIN before \ {key} : json[k] = before[k]

\* A token stored a new key beside the entry that was there.
C7_Witness ==
    /\ IsSet
    /\ before # EmptyMap
    /\ DOMAIN json # DOMAIN before
    /\ \A k \in DOMAIN before : json[k] = before[k]

\* C8: entries are overwritten: each key maps to the value of the last call
\* that stored an entry for it, a discarded call changes nothing, and the
\* last call made once more leaves the accumulator as it is.
C8_LastAcceptedWins ==
    /\ json = lastAccepted
    /\ IsSet => SetJSONKeyValue(json, lastCall.tok) = json
    /\ IsAdd => AddJSONKeyValue(json, lastCall.key, lastCall.val) = json

\* A boolean entry was overwritten by a string entry.
C8_Witness ==
    /\ IsSet
    /\ lastCall.tok = <<"b", "o", "o", "l", "=", "t", "r", "u", "e">>
    /\ Bool \in DOMAIN before
    /\ before[Bool].kind = "bool"
    /\ json[Bool] = StringVal(<<"t", "r", "u", "e">>)

\* C9: AddJSONKeyValue(key, value) stores key -> value as given iff key is
\* not empty and value is not the empty string; false and 0 are stored; when
\* nothing is stored the accumulator is unchanged.
C9_AddStoresUnlessEmpty ==
    IsAdd
        => IF lastCall.key # <<>> /\ lastCall.val # StringVal(<<>>)
           THEN SetsOnly(lastCall.key, lastCall.val)
           ELSE json = before

\* The boolean false was stored.
C9_Witness ==
    /\ IsAdd
    /\ lastCall.key = Nick
    /\ lastCall.val = BoolVal(FALSE)
    /\ json[Nick] = BoolVal(FALSE)
    /\ json # before

\* C10: when the client's Do returned a response and WithBodyReader was not
\* called, http.Response.Body is closed by the time Post/Get/Put/Patch/Delete
\* returns, on the success path and on every error path.
C10_BodyClosedOnReturn ==
    (lastCall.op \in Methods /\ clientResp /\ ~bodyReader) => respBody = "closed"

\* A dispatch handed a request to the client's Do
Handed == lastCall.op \in Methods /\ sent.built

\* C11: after SetBasicAuth(username, password) with both non-empty, the http
\* request handed to the client's Do by Post/Get/Put/Patch/Delete carries
\* those basic-auth credentials.
C11_BasicAuthOnRequest ==
    (Handed /\ username # "" /\ password # "") => sent.auth = <<username, password>>

\* C12: every cookie added with AddCookie before dispatch (one per distinct
\* name, the last added for a repeated name) is present on the http request
\* handed to the client's Do by Post/Get/Put/Patch/Delete.
C12_CookiesOnRequest ==
    Handed =>
        \A n \in DOMAIN cookies :
            n \in DOMAIN sent.cookies /\ sent.cookies[n] = cookies[n]

\* flags contains the flag f
Contains(flags, f) == (flags \div f) % 2 = 1

\* C13: with a non-nil logger a dispatch logs the request body exactly when
\* flags contains ReqBody, each request header exactly when flags contains
\* ReqHeaders and each request cookie exactly when flags contains ReqCookies,
\* for every combination of the six DebugFlag bits; a category whose flag is
\* not set is never logged, and nothing is logged when the logger is nil.
C13_LogsPerFlag ==
    Handed =>
        IF logger
        THEN /\ logged.body # {} <=> Contains(debugFlags, ReqBody)
             /\ \A k \in DOMAIN headers :
                    k \in logged.headers <=> Contains(debugFlags, ReqHeaders)
             /\ \A k \in DOMAIN cookies :
                    k \in logged.cookies <=> Contains(debugFlags, ReqCookies)
        ELSE logged = NoLog

\* The step is a dispatch
DispatchStep == lastCall'.op \in Methods /\ dispatches' = dispatches + 1

\* C14: do sends the bytes stored by SetJSONPayload whenever they are
\* non-empty, whatever AddJSONKeyValue stored and in whatever order the two
\* were called; otherwise it sends the JSON encoding of the accumulator, an
\* empty object when it has no entry.  A dispatch does not modify the
\* accumulator, the stored payload, the headers or the cookies, and two
\* consecutive dispatches send the same body.
C14_BodySelection ==
    [][DispatchStep =>
        /\ json' = json
        /\ jsonPayload' = jsonPayload
        /\ headers' = headers
        /\ cookies' = cookies
        /\ sent'.built =>
            /\ jsonPayload # <<>> => sent'.body = jsonPayload
            /\ jsonPayload = <<>> => sent'.body = Encode(json)
            /\ (jsonPayload = <<>> /\ json = EmptyMap) =>
                   sent'.body = <<"{", "}", "\n">>
            /\ (jsonPayload = <<>> /\ json = MapAssign(EmptyMap, Nick, StringVal(TestText))) =>
                   sent'.body = <<"{", "\"", "n", "i", "c", "k", "\"", ":",
                                  "\"", "t", "e", "s", "t", "\"", "}", "\n">>
        /\ (lastCall.op \in Methods /\ sent.built /\ sent'.built) =>
               sent'.body = sent.body]_vars

\* Two consecutive dispatches of a request with an entry in the accumulator
\* and stored bytes: both sent the stored bytes.
C14_Witness ==
    /\ Handed
    /\ json # EmptyMap
    /\ jsonPayload # <<>>
    /\ sent.body = jsonPayload
    /\ sentBefore.built
    /\ sentBefore.body = sent.body

====
